---- MODULE Spec2Model ----
(***************************************************************************)
(* Text Finder (Figma plugin sandbox code, src/code.ts): the selection-    *)
(* context tracker, the snapshot/diff engine and the navigation guard,     *)
(* together with the part of the host (scene graph, selection, event       *)
(* delivery) that the handlers read and write.                             *)
(*                                                                         *)
(* Host assumptions (the host is not part of the repository):              *)
(*  - every assignment of the page selection, by the user or by the        *)
(*    plugin, produces one selectionchange notification; notifications     *)
(*    are delivered later, one at a time, in the order they were produced; *)
(*  - document mutations are reported by a (batched) documentchange        *)
(*    notification;                                                        *)
(*  - handlers run to completion, one at a time.                           *)
(***************************************************************************)
EXTENDS Integers, Sequences, FiniteSets, TLC

\* ------------------------------------------------------------------ bounds
MaxPending == 2    \* selectionchange notifications in flight

\* -------------------------------------------------------------- the scene
\* The page holds A (FRAME) > t1 (TEXT), G (GROUP) > t2 (TEXT).  "cap" stands
\* for the RECTANGLE that the last create-image message put on the page.
SceneNodes == {"A", "G", "t1", "t2"}
Nodes == SceneNodes \cup {"cap"}
TextNodes == {"t1", "t2"}
NoNode == "null"

\* the inputs of the environment
UserSelections ==
  {<<>>, <<"A">>, <<"G">>, <<"t1">>, <<"t2">>,
   <<"t1", "A">>, <<"t1", "t2">>, <<"G", "A">>}
UiIds == {"", "t1", "t2", "G"}
UiIdLists == {<<>>, <<"t2", "t1">>, <<"G">>}
Hideable == {"G", "t2"}
Editable == {"t2"}
Movable == {"t2"}
Removable == {"G"}
Heights == 1..2

NodeType(n) ==
  CASE n = "A" -> "FRAME"
    [] n = "G" -> "GROUP"
    [] n \in TextNodes -> "TEXT"
    [] OTHER -> "RECTANGLE"

ParentOf(n) ==
  CASE n = "t1" -> "A"
    [] n = "G" -> "A"
    [] n = "t2" -> "G"
    [] OTHER -> NoNode

ChildOrder(n) ==
  CASE n = "A" -> <<"t1", "G">>
    [] n = "G" -> <<"t2">>
    [] OTHER -> <<>>

HasChildren(n) == NodeType(n) \in {"FRAME", "GROUP"}

PosX(n) == IF n = "t1" THEN 1 ELSE 0

\* raw text attributes; sizes in tenths, spacing values in thousandths
R0 ==
  [characters |-> "Foo",
   fontSize |-> [mixed |-> FALSE, v |-> 140],
   fontName |-> [mixed |-> FALSE, family |-> "Inter", style |-> "Regular"],
   letterSpacing |-> [mixed |-> FALSE, unit |-> "PERCENT", value |-> 1500],
   lineHeight |-> [mixed |-> FALSE, unit |-> "AUTO", value |-> 0],
   textStyleId |-> ""]
R1 == [R0 EXCEPT !.fontSize = [mixed |-> FALSE, v |-> 144]]
R2 == [R0 EXCEPT !.characters = "Foo!"]
RawStates == {R0, R1, R2}

VARIABLES
  exists,             \* host: node is in the document
  visible,            \* host: node.visible
  raw,                \* host: attributes of the text nodes
  posY,               \* host: absoluteTransform[1][2] of the text nodes
  selection,          \* host: figma.currentPage.selection
  pending,            \* host: selectionchange notifications in flight, by cause
  docDirty,           \* host: a documentchange notification is in flight
  lastActiveFrameId,  \* plugin state
  isNavigating,       \* plugin state
  originalDataMap,    \* plugin state
  out,                \* messages posted to the UI by the last step
  toast,              \* figma.notify of the last step
  ev,                 \* the last step
  entry,              \* the six fields of the text leaves at the last context entry
  resetIds,           \* the nodeIds of the rows of the last reset-scan that posted rows
  flagged             \* the rows present at entry that a re-scan of the active context reported modified

vars == <<exists, visible, raw, posY, selection, pending, docDirty,
          lastActiveFrameId, isNavigating, originalDataMap,
          out, toast, ev, entry, resetIds, flagged>>
hostDoc == <<exists, visible, raw, posY>>
session == <<lastActiveFrameId, isNavigating, originalDataMap>>
history == <<entry, resetIds, flagged>>

\* ---------------------------------------------------------- host queries
getNodeById(id) == IF id \in Nodes /\ exists[id] THEN id ELSE NoNode

RECURSIVE liveOnly(_)
liveOnly(s) ==
  IF s = <<>> THEN <<>>
  ELSE IF exists[Head(s)] THEN <<Head(s)>> \o liveOnly(Tail(s))
       ELSE liveOnly(Tail(s))

children(n) == liveOnly(ChildOrder(n))

\* ------------------------------------------------------- text discovery
RECURSIVE findVisibleTextNodes(_)
RECURSIVE flatMapFind(_)
flatMapFind(s) ==
  IF s = <<>> THEN <<>>
  ELSE findVisibleTextNodes(Head(s)) \o flatMapFind(Tail(s))

\* findVisibleTextNodes with a plausible slip: visibility is checked on the
\* text node only, a hidden branch is not pruned
findVisibleTextNodesLeafOnly(node) ==
  IF NodeType(node) = "TEXT" THEN (IF visible[node] THEN <<node>> ELSE <<>>)
  ELSE IF HasChildren(node) THEN flatMapFind(children(node))
  ELSE <<>>

findVisibleTextNodes(node) ==
  IF ~visible[node] THEN <<>>
  ELSE IF NodeType(node) = "TEXT" THEN <<node>>
  ELSE IF HasChildren(node) THEN flatMapFind(children(node))
  ELSE <<>>

\* --------------------------------------------------- attribute formatter
\* the style table of the document: one local text style
getStyleName(id) == IF id = "S:1" THEN "Body" ELSE ""

\* the marker emoji of the two sentinel names is left out of the strings
resolveStyleName(textStyleId) ==
  IF textStyleId = "figma.mixed" THEN [name |-> "Mixed style", unlinked |-> FALSE]
  ELSE IF textStyleId = "" THEN [name |-> "Unlinked", unlinked |-> TRUE]
  ELSE IF getStyleName(textStyleId) # ""
       THEN [name |-> getStyleName(textStyleId), unlinked |-> FALSE]
       ELSE [name |-> "Unlinked", unlinked |-> TRUE]

\* Math.round of a size given in tenths
formatFontSize(fontSize) ==
  IF fontSize.mixed THEN "Mixed" ELSE ToString((fontSize.v + 5) \div 10)

formatFontFamily(fontName) ==
  IF fontName.mixed THEN "Mixed" ELSE fontName.family \o " " \o fontName.style

\* parseFloat(value.toFixed(2)) of a value given in thousandths
fixed2(value) ==
  LET h == (value + 5) \div 10
      whole == h \div 100
      frac == h % 100
  IN  ToString(whole) \o
      (IF frac = 0 THEN ""
       ELSE IF frac % 10 = 0 THEN "." \o ToString(frac \div 10)
       ELSE "." \o (IF frac < 10 THEN "0" ELSE "") \o ToString(frac))

formatLetterSpacing(ls) ==
  IF ls.mixed THEN "Mixed"
  ELSE IF ls.unit = "PERCENT" THEN fixed2(ls.value) \o "%"
  ELSE fixed2(ls.value) \o "px"

formatLineHeight(lh) ==
  IF lh.mixed THEN "Mixed"
  ELSE IF lh.unit = "AUTO" THEN "Auto"
  ELSE IF lh.unit = "PERCENT" THEN fixed2(lh.value) \o "%"
  ELSE fixed2(lh.value) \o "px"

\* ---------------------------------------------------------- row extraction
extractData(node) ==
  LET styleInfo == resolveStyleName(raw[node].textStyleId)
  IN  [nodeId |-> node,
       textContent |-> raw[node].characters,
       styleName |-> styleInfo.name,
       fontSize |-> formatFontSize(raw[node].fontSize),
       fontFamily |-> formatFontFamily(raw[node].fontName),
       letterSpacing |-> formatLetterSpacing(raw[node].letterSpacing),
       lineHeight |-> formatLineHeight(raw[node].lineHeight),
       isUnlinked |-> styleInfo.unlinked,
       isModified |-> FALSE]

mapExtract(s) == [i \in DOMAIN s |-> extractData(s[i])]

\* ------------------------------------------------------ snapshot and diff
EmptyMap == [n \in {} |-> ""]

\* serializeRow with a plausible slip: the text content is left out
serializeRowNoText(r) ==
  "{\"s\":\"" \o r.styleName
    \o "\",\"fs\":\"" \o r.fontSize \o "\",\"ff\":\"" \o r.fontFamily
    \o "\",\"ls\":\"" \o r.letterSpacing \o "\",\"lh\":\"" \o r.lineHeight \o "\"}"

\* JSON.stringify of the six fields, in the order t, s, fs, ff, ls, lh
serializeRow(r) ==
  "{\"t\":\"" \o r.textContent \o "\",\"s\":\"" \o r.styleName
    \o "\",\"fs\":\"" \o r.fontSize \o "\",\"ff\":\"" \o r.fontFamily
    \o "\",\"ls\":\"" \o r.letterSpacing \o "\",\"lh\":\"" \o r.lineHeight \o "\"}"

\* clear(), then set(nodeId, fingerprint) for each row in order
takeSnapshot(rows) ==
  [id \in {rows[i].nodeId : i \in DOMAIN rows} |->
     LET last == CHOOSE i \in DOMAIN rows :
                   /\ rows[i].nodeId = id
                   /\ \A j \in DOMAIN rows : rows[j].nodeId = id => j <= i
     IN  serializeRow(rows[last])]

\* markModified with a plausible slip: a row without a baseline counts as new
markModifiedAbsentIsNew(rows, odm) ==
  [i \in DOMAIN rows |->
     [rows[i] EXCEPT !.isModified =
        \/ rows[i].nodeId \notin DOMAIN odm
        \/ odm[rows[i].nodeId] # serializeRow(rows[i])]]

markModified(rows, odm) ==
  [i \in DOMAIN rows |->
     [rows[i] EXCEPT !.isModified =
        /\ rows[i].nodeId \in DOMAIN odm
        /\ odm[rows[i].nodeId] # serializeRow(rows[i])]]

CONTAINER_TYPES == {"FRAME", "COMPONENT", "COMPONENT_SET", "INSTANCE", "GROUP"}

\* node.parent of a node; the page and the document are above the top level
RECURSIVE climbsTo(_, _)
climbsTo(current, ancestorId) ==
  IF current = NoNode THEN FALSE
  ELSE IF current = ancestorId THEN TRUE
  ELSE climbsTo(ParentOf(current), ancestorId)

isChildOf(node, ancestorId) == climbsTo(ParentOf(node), ancestorId)

\* ------------------------------------------------------------- scanFrame
\* the comparator of the sort: y first, then x
compareNodes(a, b) ==
  IF posY[a] # posY[b] THEN posY[a] - posY[b] ELSE PosX(a) - PosX(b)

RECURSIVE insertSorted(_, _)
insertSorted(x, s) ==
  IF s = <<>> THEN <<x>>
  ELSE IF compareNodes(Head(s), x) <= 0 THEN <<Head(s)>> \o insertSorted(x, Tail(s))
  ELSE <<x>> \o s

\* the scan of the earlier variant of the plugin: no sort, tree order
sortNodesTreeOrder(s, acc) == acc \o s

\* Array.prototype.sort is stable
RECURSIVE sortNodes(_, _)
sortNodes(s, acc) ==
  IF s = <<>> THEN acc ELSE sortNodes(Tail(s), insertSorted(Head(s), acc))

clearModified(rows) == [i \in DOMAIN rows |-> [rows[i] EXCEPT !.isModified = FALSE]]

\* scanFrame with a plausible slip: every scan replaces the snapshot
scanFrameAlwaysSnapshot(frameId, isNewContext, odm) ==
  LET frameNode == getNodeById(frameId)
  IN  IF frameNode = NoNode \/ ~HasChildren(frameNode)
      THEN [msgs |-> <<[type |-> "no-text"]>>, map |-> odm, rows |-> <<>>]
      ELSE
        LET textNodes == sortNodes(flatMapFind(children(frameNode)), <<>>)
        IN  IF Len(textNodes) = 0
            THEN [msgs |-> <<[type |-> "no-text"]>>, map |-> odm, rows |-> <<>>]
            ELSE
              LET rows == mapExtract(textNodes)
                  marked == IF isNewContext THEN clearModified(rows)
                            ELSE markModified(rows, odm)
              IN  [msgs |-> <<[type |-> "result", data |-> marked]>>,
                   map |-> takeSnapshot(marked),
                   rows |-> marked]

\* scanFrame with a plausible slip: the rows of a reset-scan are diffed
\* against the old snapshot before it is replaced
scanFrameDiffFirst(frameId, isNewContext, odm) ==
  LET frameNode == getNodeById(frameId)
  IN  IF frameNode = NoNode \/ ~HasChildren(frameNode)
      THEN [msgs |-> <<[type |-> "no-text"]>>, map |-> odm, rows |-> <<>>]
      ELSE
        LET textNodes == sortNodes(flatMapFind(children(frameNode)), <<>>)
        IN  IF Len(textNodes) = 0
            THEN [msgs |-> <<[type |-> "no-text"]>>, map |-> odm, rows |-> <<>>]
            ELSE
              LET rows == mapExtract(textNodes)
                  marked == markModified(rows, odm)
              IN  [msgs |-> <<[type |-> "result", data |-> marked]>>,
                   map |-> IF isNewContext THEN takeSnapshot(marked) ELSE odm,
                   rows |-> marked]

\* scanFrame with a plausible slip: a re-scan remembers in the map which rows
\* it reported modified
scanFrameSticky(frameId, isNewContext, odm) ==
  LET frameNode == getNodeById(frameId)
  IN  IF frameNode = NoNode \/ ~HasChildren(frameNode)
      THEN [msgs |-> <<[type |-> "no-text"]>>, map |-> odm, rows |-> <<>>]
      ELSE
        LET textNodes == sortNodes(flatMapFind(children(frameNode)), <<>>)
        IN  IF Len(textNodes) = 0
            THEN [msgs |-> <<[type |-> "no-text"]>>, map |-> odm, rows |-> <<>>]
            ELSE
              LET rows == mapExtract(textNodes)
                  marked == IF isNewContext THEN clearModified(rows)
                            ELSE markModified(rows, odm)
                  dirty == {marked[i].nodeId : i \in {j \in DOMAIN marked : marked[j].isModified}}
              IN  [msgs |-> <<[type |-> "result", data |-> marked]>>,
                   map |-> IF isNewContext THEN takeSnapshot(marked)
                           ELSE [id \in DOMAIN odm |-> IF id \in dirty THEN "modified" ELSE odm[id]],
                   rows |-> marked]

\* the messages posted, the map afterwards and the rows found
scanFrame(frameId, isNewContext, odm) ==
  LET frameNode == getNodeById(frameId)
  IN  IF frameNode = NoNode \/ ~HasChildren(frameNode)
      THEN [msgs |-> <<[type |-> "no-text"]>>, map |-> odm, rows |-> <<>>]
      ELSE
        LET textNodes == sortNodes(flatMapFind(children(frameNode)), <<>>)
        IN  IF Len(textNodes) = 0
            THEN [msgs |-> <<[type |-> "no-text"]>>, map |-> odm, rows |-> <<>>]
            ELSE
              LET rows == mapExtract(textNodes)
                  marked == IF isNewContext THEN clearModified(rows)
                            ELSE markModified(rows, odm)
              IN  [msgs |-> <<[type |-> "result", data |-> marked]>>,
                   map |-> IF isNewContext THEN takeSnapshot(marked) ELSE odm,
                   rows |-> marked]

\* findContainer with a plausible slip: the last container, not the first
RECURSIVE findContainerLast(_)
findContainerLast(sel) ==
  IF sel = <<>> THEN NoNode
  ELSE IF findContainerLast(Tail(sel)) # NoNode THEN findContainerLast(Tail(sel))
  ELSE IF NodeType(Head(sel)) \in CONTAINER_TYPES THEN Head(sel)
  ELSE NoNode

\* selection.find(n => CONTAINER_TYPES.has(n.type)), NoNode when there is none
RECURSIVE findContainer(_)
findContainer(sel) ==
  IF sel = <<>> THEN NoNode
  ELSE IF NodeType(Head(sel)) \in CONTAINER_TYPES THEN Head(sel)
  ELSE findContainer(Tail(sel))

\* the filter with a plausible slip: one descendant lets the whole selection
\* through
filterChildrenKeepAll(sel, ancestorId) ==
  IF \E i \in DOMAIN sel : isChildOf(sel[i], ancestorId) THEN sel ELSE <<>>

\* selection.filter(n => isChildOf(n, ancestorId))
RECURSIVE filterChildren(_, _)
filterChildren(sel, ancestorId) ==
  IF sel = <<>> THEN <<>>
  ELSE IF isChildOf(Head(sel), ancestorId)
       THEN <<Head(sel)>> \o filterChildren(Tail(sel), ancestorId)
       ELSE filterChildren(Tail(sel), ancestorId)

\* ------------------------------------------------------- inputs and history
Range(s) == {s[i] : i \in DOMAIN s}

LiveNodes == {n \in Nodes : exists[n]}
Selections == {sel \in UserSelections : Range(sel) \subseteq LiveNodes}

\* a text node all of whose ancestors below container c are visible
RECURSIVE shownBelow(_, _)
shownBelow(n, c) ==
  IF n = NoNode THEN FALSE
  ELSE IF n = c THEN TRUE
  ELSE exists[n] /\ visible[n] /\ shownBelow(ParentOf(n), c)

LeavesOf(c) == {t \in TextNodes : shownBelow(t, c)}

SixFields(t) ==
  LET r == extractData(t)
  IN  <<r.textContent, r.styleName, r.fontSize, r.fontFamily, r.letterSpacing, r.lineHeight>>

EntryOf(c) == [t \in LeavesOf(c) |-> SixFields(t)]
NoEntry == [t \in {} |-> <<>>]

RowIds(rows) == {rows[i].nodeId : i \in DOMAIN rows}
ModifiedIds(rows) == {rows[i].nodeId : i \in {j \in DOMAIN rows : rows[j].isModified}}

\* a step: its kind, the cause of the notification it handled, the guard and
\* the context it found
Step(kind, cause, guarded, was) ==
  [kind |-> kind, cause |-> cause, guarded |-> guarded, was |-> was]
Other(kind) == Step(kind, "none", FALSE, NoNode)

\* ----------------------------------------------------------------- startup
\* initFromSelection with a plausible slip: only the first selected node is
\* looked at
initFromSelectionHeadOnly(sel) ==
  LET container == IF sel # <<>> /\ NodeType(Head(sel)) \in CONTAINER_TYPES
                   THEN Head(sel) ELSE NoNode
  IN  IF Len(sel) = 0 \/ container = NoNode
      THEN [frame |-> NoNode, entered |-> FALSE,
            scan |-> [msgs |-> <<[type |-> "empty"]>>, map |-> EmptyMap, rows |-> <<>>]]
      ELSE [frame |-> container, entered |-> TRUE,
            scan |-> scanFrame(container, TRUE, EmptyMap)]

\* the context and the scan of initFromSelection; scan.msgs is what it posts
initFromSelection(sel) ==
  LET container == findContainer(sel)
  IN  IF Len(sel) = 0 \/ container = NoNode
      THEN [frame |-> NoNode, entered |-> FALSE,
            scan |-> [msgs |-> <<[type |-> "empty"]>>, map |-> EmptyMap, rows |-> <<>>]]
      ELSE [frame |-> container, entered |-> TRUE,
            scan |-> scanFrame(container, TRUE, EmptyMap)]

Init ==
  /\ exists = [n \in Nodes |-> TRUE]
  /\ \E v \in BOOLEAN : visible = [n \in Nodes |-> IF n = "t2" THEN v ELSE TRUE]
  /\ raw = [t \in TextNodes |-> R0]
  /\ posY = [t \in TextNodes |-> 1]
  /\ selection \in Selections
  /\ pending = <<>>
  /\ docDirty = FALSE
  /\ isNavigating = FALSE
  /\ toast = "none"
  /\ ev = Other("init")
  /\ LET start == initFromSelection(selection)
     IN  /\ lastActiveFrameId = start.frame
         /\ originalDataMap = start.scan.map
         /\ out = start.scan.msgs
         /\ entry = IF start.entered THEN EntryOf(start.frame) ELSE NoEntry
         /\ resetIds = RowIds(start.scan.rows)
         /\ flagged = {}

\* ---------------------------------------------------------- selectionchange
\* Case A with a plausible slip: a container without visible text is not kept
\* as the active context
CaseAOnlyWithText(container) ==
  LET res == scanFrame(container, TRUE, originalDataMap)
  IN  /\ lastActiveFrameId' = IF res.rows = <<>> THEN NoNode ELSE container
      /\ originalDataMap' = res.map
      /\ out' = res.msgs
      /\ entry' = EntryOf(container)
      /\ resetIds' = IF res.rows # <<>> THEN RowIds(res.rows) ELSE resetIds
      /\ flagged' = {}

\* Case A: a container is directly selected, switch context
CaseA(container) ==
  LET res == scanFrame(container, TRUE, originalDataMap)
  IN  /\ lastActiveFrameId' = container
      /\ originalDataMap' = res.map
      /\ out' = res.msgs
      /\ entry' = EntryOf(container)
      /\ resetIds' = IF res.rows # <<>> THEN RowIds(res.rows) ELSE resetIds
      /\ flagged' = {}

\* Case B as in the earlier variant of the handler: re-scan the active frame
CaseBRescan(childNodes) ==
  /\ out' = scanFrame(lastActiveFrameId, FALSE, originalDataMap).msgs
  /\ UNCHANGED <<lastActiveFrameId, originalDataMap, history>>

\* Case B: selected nodes are inside the active frame, sync the highlight
CaseB(childNodes) ==
  /\ out' = <<[type |-> "sync-selection", ids |-> childNodes]>>
  /\ UNCHANGED <<lastActiveFrameId, originalDataMap, history>>

\* Case C as in the earlier variant of the handler: do nothing, keep state
CaseCLenient ==
  /\ out' = <<>>
  /\ UNCHANGED <<lastActiveFrameId, originalDataMap, history>>

\* Case C: the selection is unrelated to the active frame, reset
CaseC ==
  /\ lastActiveFrameId' = NoNode
  /\ out' = <<[type |-> "empty"]>>
  /\ flagged' = {}
  /\ UNCHANGED <<originalDataMap, entry, resetIds>>

SelectionChange ==
  /\ pending # <<>>
  /\ pending' = Tail(pending)
  /\ ev' = Step("selectionchange", Head(pending), isNavigating, lastActiveFrameId)
  /\ toast' = "none"
  /\ UNCHANGED <<hostDoc, selection, docDirty>>
  /\ IF isNavigating
     THEN /\ isNavigating' = FALSE
          /\ out' = <<>>
          /\ UNCHANGED <<lastActiveFrameId, originalDataMap, history>>
     ELSE
       LET container == findContainer(selection)
           childNodes == IF lastActiveFrameId # NoNode
                         THEN filterChildren(selection, lastActiveFrameId) ELSE <<>>
       IN  /\ UNCHANGED isNavigating
           /\ IF Len(selection) > 0 /\ container # NoNode
              THEN CaseA(container)
              ELSE IF lastActiveFrameId # NoNode /\ Len(selection) > 0 /\ Len(childNodes) > 0
              THEN CaseB(childNodes)
              ELSE CaseC

\* ---------------------------------------------------------- documentchange
\* the handler with a plausible slip: the scan is run as for a new context
DocumentChangeResets ==
  /\ docDirty
  /\ docDirty' = FALSE
  /\ ev' = Step("documentchange", "none", FALSE, lastActiveFrameId)
  /\ toast' = "none"
  /\ UNCHANGED <<hostDoc, selection, pending, lastActiveFrameId, isNavigating, entry, resetIds>>
  /\ IF lastActiveFrameId # NoNode /\ getNodeById(lastActiveFrameId) # NoNode
     THEN LET res == scanFrame(lastActiveFrameId, TRUE, originalDataMap)
          IN  /\ originalDataMap' = res.map
              /\ out' = res.msgs
              /\ flagged' = flagged \cup (ModifiedIds(res.rows) \cap DOMAIN entry)
     ELSE /\ out' = <<>>
          /\ UNCHANGED <<originalDataMap, flagged>>

DocumentChange ==
  /\ docDirty
  /\ docDirty' = FALSE
  /\ ev' = Step("documentchange", "none", FALSE, lastActiveFrameId)
  /\ toast' = "none"
  /\ UNCHANGED <<hostDoc, selection, pending, lastActiveFrameId, isNavigating, entry, resetIds>>
  /\ IF lastActiveFrameId # NoNode /\ getNodeById(lastActiveFrameId) # NoNode
     THEN LET res == scanFrame(lastActiveFrameId, FALSE, originalDataMap)
          IN  /\ originalDataMap' = res.map
              /\ out' = res.msgs
              /\ flagged' = flagged \cup (ModifiedIds(res.rows) \cap DOMAIN entry)
     ELSE /\ out' = <<>>
          /\ UNCHANGED <<originalDataMap, flagged>>

\* -------------------------------------------------------------- UI messages
\* the host side of `figma.currentPage.selection = nodes`
AssignSelection(nodes) ==
  /\ Len(pending) < MaxPending
  /\ selection' = nodes
  /\ pending' = Append(pending, "core")

\* getNodeById of each id, the ones that resolve, in order
RECURSIVE resolveAll(_)
resolveAll(ids) ==
  IF ids = <<>> THEN <<>>
  ELSE IF getNodeById(Head(ids)) # NoNode
       THEN <<Head(ids)>> \o resolveAll(Tail(ids))
       ELSE resolveAll(Tail(ids))

\* select-node with a plausible slip: the guard is set before the lookup
SelectNodeGuardFirst(nodeId) ==
  /\ ev' = Other("message")
  /\ out' = <<>>
  /\ IF nodeId = ""
     THEN /\ toast' = "none"
          /\ UNCHANGED <<isNavigating, selection, pending>>
     ELSE LET node == getNodeById(nodeId)
          IN  /\ isNavigating' = TRUE
              /\ IF node # NoNode /\ NodeType(node) = "TEXT"
                 THEN /\ AssignSelection(<<node>>)
                      /\ toast' = "none"
                 ELSE /\ toast' = "warning"
                      /\ UNCHANGED <<selection, pending>>
  /\ UNCHANGED <<hostDoc, docDirty, lastActiveFrameId, originalDataMap, history>>

\* a message without nodeId matches no branch of the handler
SelectNode(nodeId) ==
  /\ ev' = Other("message")
  /\ out' = <<>>
  /\ IF nodeId = ""
     THEN /\ toast' = "none"
          /\ UNCHANGED <<isNavigating, selection, pending>>
     ELSE LET node == getNodeById(nodeId)
          IN  IF node # NoNode /\ NodeType(node) = "TEXT"
              THEN /\ isNavigating' = TRUE
                   /\ AssignSelection(<<node>>)
                   /\ toast' = "none"
              ELSE /\ toast' = "warning"
                   /\ UNCHANGED <<isNavigating, selection, pending>>
  /\ UNCHANGED <<hostDoc, docDirty, lastActiveFrameId, originalDataMap, history>>

\* a message without ids, or with an empty list, matches no branch
SelectNodes(ids) ==
  /\ ev' = Other("message")
  /\ out' = <<>>
  /\ IF Len(ids) = 0
     THEN /\ toast' = "none"
          /\ UNCHANGED <<isNavigating, selection, pending>>
     ELSE LET nodes == resolveAll(ids)
          IN  IF Len(nodes) > 0
              THEN /\ isNavigating' = TRUE
                   /\ AssignSelection(nodes)
                   /\ toast' = "none"
              ELSE /\ toast' = "warning"
                   /\ UNCHANGED <<isNavigating, selection, pending>>
  /\ UNCHANGED <<hostDoc, docDirty, lastActiveFrameId, originalDataMap, history>>

\* createRectangle adds a rectangle to the page; its size, fill and position
\* are not part of the state
CreateImage ==
  /\ docDirty' = TRUE
  /\ isNavigating' = TRUE
  /\ AssignSelection(<<"cap">>)
  /\ toast' = "done"
  /\ ev' = Other("message")
  /\ out' = <<>>
  /\ UNCHANGED <<hostDoc, lastActiveFrameId, originalDataMap, history>>

\* ------------------------------------------------------------------ the user
UserSelect(sel) ==
  /\ sel # selection
  /\ Len(pending) < MaxPending
  /\ selection' = sel
  /\ pending' = Append(pending, "user")
  /\ ev' = Other("user")
  /\ out' = <<>>
  /\ toast' = "none"
  /\ UNCHANGED <<hostDoc, docDirty, session, history>>

Edited ==
  /\ docDirty' = TRUE
  /\ ev' = Other("user")
  /\ out' = <<>>
  /\ toast' = "none"
  /\ UNCHANGED <<session, history>>

SetVisible(n) ==
  /\ exists[n]
  /\ visible' = [visible EXCEPT ![n] = ~visible[n]]
  /\ Edited
  /\ UNCHANGED <<exists, raw, posY, selection, pending>>

EditText(t, r) ==
  /\ exists[t] /\ r # raw[t]
  /\ raw' = [raw EXCEPT ![t] = r]
  /\ Edited
  /\ UNCHANGED <<exists, visible, posY, selection, pending>>

Move(t, y) ==
  /\ exists[t] /\ y # posY[t]
  /\ posY' = [posY EXCEPT ![t] = y]
  /\ Edited
  /\ UNCHANGED <<exists, visible, raw, selection, pending>>

RECURSIVE keepLive(_, _)
keepLive(sel, gone) ==
  IF sel = <<>> THEN <<>>
  ELSE IF Head(sel) \in gone THEN keepLive(Tail(sel), gone)
  ELSE <<Head(sel)>> \o keepLive(Tail(sel), gone)

\* deleting a node deletes its subtree; a deleted node leaves the selection
\* and has no attributes any more (they are put back to their first values)
Remove(n) ==
  LET gone == {m \in Nodes : m = n \/ isChildOf(m, n)}
      kept == keepLive(selection, gone)
  IN  /\ exists[n]
      /\ exists' = [m \in Nodes |-> exists[m] /\ m \notin gone]
      /\ visible' = [m \in Nodes |-> m \in gone \/ visible[m]]
      /\ raw' = [t \in TextNodes |-> IF t \in gone THEN R0 ELSE raw[t]]
      /\ posY' = [t \in TextNodes |-> IF t \in gone THEN 1 ELSE posY[t]]
      /\ selection' = kept
      /\ IF kept # selection
         THEN /\ Len(pending) < MaxPending
              /\ pending' = Append(pending, "user")
         ELSE UNCHANGED pending
      /\ Edited

Next ==
  \/ SelectionChange
  \/ DocumentChange
  \/ \E id \in UiIds : SelectNode(id)
  \/ \E ids \in UiIdLists : SelectNodes(ids)
  \/ CreateImage
  \/ \E sel \in Selections : UserSelect(sel)
  \/ \E n \in Hideable : SetVisible(n)
  \/ \E t \in Editable, r \in RawStates : EditText(t, r)
  \/ \E t \in Movable, y \in Heights : Move(t, y)
  \/ \E n \in Removable : Remove(n)

Spec == Init /\ [][Next]_vars

TypeOK ==
  /\ lastActiveFrameId \in Nodes \cup {NoNode}
  /\ isNavigating \in BOOLEAN
  /\ DOMAIN originalDataMap \subseteq TextNodes
  /\ Range(selection) \subseteq LiveNodes
  /\ Len(pending) <= MaxPending
  /\ flagged \subseteq DOMAIN entry

\* ================================================================== claims
\* vocabulary of the claims, stated on the scene rather than on the code
FirstContainer(sel) ==
  LET hits == {i \in DOMAIN sel : NodeType(sel[i]) \in CONTAINER_TYPES}
  IN  IF hits = {} THEN NoNode
      ELSE sel[CHOOSE i \in hits : \A j \in hits : i <= j]

DescendantsOf(c) ==
  {n \in SceneNodes : ParentOf(n) = c \/ ParentOf(ParentOf(n)) = c}

RowFields(r) ==
  <<r.textContent, r.styleName, r.fontSize, r.fontFamily, r.letterSpacing, r.lineHeight>>

FingerprintOf(f) ==
  serializeRow([textContent |-> f[1], styleName |-> f[2], fontSize |-> f[3],
                fontFamily |-> f[4], letterSpacing |-> f[5], lineHeight |-> f[6]])

Posted(type) == Len(out) = 1 /\ out[1].type = type
Handled == ev.kind = "selectionchange" /\ ~ev.guarded
Ignored == ev.kind = "selectionchange" /\ ev.guarded

\* C1 (as claimed): a selectionchange notification caused by a genuine user
\* selection is never swallowed by the navigation guard.
C1_UserSelectionNeverIgnored ==
  ~(Ignored /\ ev.cause = "user")

\* C2 (as claimed): handling a selectionchange notification caused by the
\* plugin's own selection assignment changes neither the active context nor
\* the snapshot and posts nothing.
C2_SelfInflictedIgnored ==
  [][(ev'.kind = "selectionchange" /\ ev'.cause = "core")
       => /\ lastActiveFrameId' = lastActiveFrameId
          /\ originalDataMap' = originalDataMap
          /\ out' = <<>>]_vars

\* C3 (as claimed): while a context is active the snapshot is exactly the
\* mapping nodeId -> fingerprint of the visible text leaves that the entered
\* container had at the moment of entry, also when it had none.
C3_SnapshotIsEntryBaseline ==
  lastActiveFrameId # NoNode
    => originalDataMap = [t \in DOMAIN entry |-> FingerprintOf(entry[t])]

\* C4 (as claimed), at a re-scan: the keys of the snapshot are among the
\* nodeIds of the rows that the scan of the active container just produced.
C4_KeysWithinLastScan ==
  (ev.kind = "documentchange" /\ out # <<>>)
    => DOMAIN originalDataMap \subseteq
         (IF out[1].type = "result" THEN RowIds(out[1].data) ELSE {})

\* C4 (amended): the keys of the snapshot are exactly the nodeIds of the rows
\* of the most recent reset-scan that posted a result; no re-scan changes them.
C4_KeysAreLastResetRows ==
  DOMAIN originalDataMap = resetIds

\* a re-scan has posted rows and the snapshot still holds a node that is no
\* longer among them
C4_Witness ==
  /\ ev.kind = "documentchange" /\ Posted("result")
  /\ lastActiveFrameId # NoNode
  /\ \E id \in DOMAIN originalDataMap : id \notin RowIds(out[1].data)

\* C5: every result posted by a reset-scan (startup or container selection)
\* has isModified = FALSE on every row.
C5_ResetScanUnmodified ==
  (ev.kind \in {"init", "selectionchange"} /\ Posted("result"))
    => \A i \in DOMAIN out[1].data : ~out[1].data[i].isModified

\* a container is re-entered after one of its rows was edited
C5_Witness ==
  /\ Handled /\ Posted("result")
  /\ ev.was # NoNode
  /\ \E i \in DOMAIN out[1].data : out[1].data[i].textContent = "Foo!"

\* C6 (as claimed): a re-scan reports a row modified only if the row was among
\* the rows of the active container when it was entered and its six fields
\* differ from the ones it had at that moment.
C6_FlagsOnlyFromEntryBaseline ==
  (ev.kind = "documentchange" /\ Posted("result"))
    => \A i \in DOMAIN out[1].data :
         out[1].data[i].isModified
           => /\ out[1].data[i].nodeId \in DOMAIN entry
              /\ entry[out[1].data[i].nodeId] # RowFields(out[1].data[i])

\* C7: an unguarded selectionchange whose selection holds a recognized
\* container enters the context of the first one and reset-scans it: no-text
\* when it has no visible text leaf, otherwise a result of unmodified rows
\* whose fingerprints become the snapshot.
C7_ContainerSelectionEnters ==
  (Handled /\ FirstContainer(selection) # NoNode)
    => LET c == FirstContainer(selection)
       IN  /\ lastActiveFrameId = c
           /\ IF LeavesOf(c) = {}
              THEN Posted("no-text")
              ELSE /\ Posted("result")
                   /\ RowIds(out[1].data) = LeavesOf(c)
                   /\ \A i \in DOMAIN out[1].data : ~out[1].data[i].isModified
                   /\ originalDataMap = [t \in LeavesOf(c) |-> FingerprintOf(SixFields(t))]

\* the active container is selected again together with one of its descendants
C7_Witness ==
  /\ Handled /\ Posted("result")
  /\ ev.was = "A" /\ selection = <<"t1", "A">> /\ lastActiveFrameId = "A"

\* C8: an unguarded selectionchange whose selection is empty, or holds neither
\* a recognized container nor a descendant of the active container, leaves no
\* active context and posts exactly one "empty".
C8_StrictExit ==
  (/\ Handled
   /\ FirstContainer(selection) = NoNode
   /\ (ev.was = NoNode \/ Range(selection) \cap DescendantsOf(ev.was) = {}))
    => /\ lastActiveFrameId = NoNode
       /\ out = <<[type |-> "empty"]>>

\* a node outside the active container is selected
C8_Witness ==
  /\ Handled /\ ev.was = "G" /\ selection = <<"t1">>
  /\ lastActiveFrameId = NoNode /\ Posted("empty")

\* C9: an unguarded selectionchange in an active context whose selection holds
\* no recognized container but a descendant of the active container posts one
\* sync-selection, no result, and changes neither the context nor the snapshot.
C9_DescendantSync ==
  [][(/\ ev'.kind = "selectionchange" /\ ~ev'.guarded
      /\ lastActiveFrameId # NoNode
      /\ FirstContainer(selection) = NoNode
      /\ Range(selection) \cap DescendantsOf(lastActiveFrameId) # {})
       => /\ Len(out') = 1 /\ out'[1].type = "sync-selection"
          /\ lastActiveFrameId' = lastActiveFrameId
          /\ originalDataMap' = originalDataMap]_vars

\* a descendant of the active container was selected and the highlight synced
C9_Witness ==
  /\ Handled /\ Posted("sync-selection")
  /\ ev.was # NoNode /\ lastActiveFrameId = ev.was
  /\ originalDataMap # EmptyMap

\* C10: after a reset-scan that posted rows, a documentchange in the same
\* context posts a result (when the container still has visible text leaves)
\* in which a row is modified exactly when it was among the rows at entry and
\* one of its six fields differs from then; geometry plays no part.
C10_EditFlipsModified ==
  (/\ ev.kind = "documentchange"
   /\ lastActiveFrameId # NoNode /\ exists[lastActiveFrameId]
   /\ DOMAIN entry # {}
   /\ LeavesOf(lastActiveFrameId) # {})
    => /\ Posted("result")
       /\ RowIds(out[1].data) = LeavesOf(lastActiveFrameId)
       /\ \A i \in DOMAIN out[1].data :
            out[1].data[i].isModified
              <=> /\ out[1].data[i].nodeId \in DOMAIN entry
                  /\ entry[out[1].data[i].nodeId] # SixFields(out[1].data[i].nodeId)

\* the text of one row was edited and the row was moved: it is reported
\* modified, the untouched row is not
C10_Witness ==
  /\ ev.kind = "documentchange" /\ Posted("result")
  /\ lastActiveFrameId = "A"
  /\ Len(out[1].data) = 2
  /\ \E i, j \in DOMAIN out[1].data :
       /\ out[1].data[i].isModified /\ out[1].data[i].textContent = "Foo!"
       /\ ~out[1].data[j].isModified

\* C11: a scan that finds no visible text leaf posts no-text and the scanned
\* container stays the active context; a later documentchange, once the active
\* container has visible text leaves, posts a result that holds them.
C11_NoTextKeepsContext ==
  /\ (ev.kind \in {"init", "selectionchange", "documentchange"} /\ Posted("no-text"))
       => /\ lastActiveFrameId # NoNode
          /\ (ev.kind = "documentchange" => lastActiveFrameId = ev.was)
  /\ (/\ ev.kind = "documentchange"
      /\ lastActiveFrameId # NoNode /\ exists[lastActiveFrameId]
      /\ LeavesOf(lastActiveFrameId) # {})
       => /\ Posted("result")
          /\ LeavesOf(lastActiveFrameId) \subseteq RowIds(out[1].data)

\* the container was entered without a visible text leaf, one was shown
\* afterwards and the documentchange posted it
C11_Witness ==
  /\ ev.kind = "documentchange" /\ Posted("result")
  /\ lastActiveFrameId = "G" /\ DOMAIN entry = {}
  /\ RowIds(out[1].data) = {"t2"}

\* C12 (as claimed): a documentchange that finds the container of the active
\* context deleted posts no-text.
C12_DeletedContainerReported ==
  (ev.kind = "documentchange" /\ ev.was # NoNode /\ ~exists[ev.was])
    => Posted("no-text")

\* C13: at startup, a selection that holds a recognized container makes the
\* first one in selection order the active context and reset-scans it (no-text
\* without visible text leaves, otherwise a result of unmodified rows whose
\* fingerprints are the snapshot); any other selection leaves no context and
\* posts exactly one "empty".
C13_Startup ==
  ev.kind = "init"
    => IF FirstContainer(selection) # NoNode
       THEN LET c == FirstContainer(selection)
            IN  /\ lastActiveFrameId = c
                /\ IF LeavesOf(c) = {}
                   THEN Posted("no-text") /\ originalDataMap = EmptyMap
                   ELSE /\ Posted("result")
                        /\ RowIds(out[1].data) = LeavesOf(c)
                        /\ \A i \in DOMAIN out[1].data : ~out[1].data[i].isModified
                        /\ originalDataMap = [t \in LeavesOf(c) |-> FingerprintOf(SixFields(t))]
       ELSE /\ lastActiveFrameId = NoNode
            /\ originalDataMap = EmptyMap
            /\ out = <<[type |-> "empty"]>>

\* the plugin starts with a text node selected before a frame
C13_Witness ==
  /\ ev.kind = "init" /\ selection = <<"t1", "A">>
  /\ lastActiveFrameId = "A" /\ Posted("result")

\* C14: the rows of every result are in geometric order: ascending vertical
\* position and, at equal vertical position, ascending horizontal position.
C14_GeometricOrder ==
  Posted("result")
    => \A i, j \in DOMAIN out[1].data :
         i < j => LET a == out[1].data[i].nodeId
                      b == out[1].data[j].nodeId
                  IN  \/ posY[a] < posY[b]
                      \/ posY[a] = posY[b] /\ PosX(a) <= PosX(b)

\* the later node of the tree is posted first: same height, further left
C14_Witness ==
  /\ Posted("result") /\ Len(out[1].data) = 2
  /\ out[1].data[1].nodeId = "t2" /\ out[1].data[2].nodeId = "t1"
  /\ posY["t1"] = posY["t2"]

\* the text nodes of the scene in host child order (depth first)
TextOrder == <<"t1", "t2">>

\* n and every node from n up to root, root included, is visible
RECURSIVE visibleUpTo(_, _)
visibleUpTo(n, root) ==
  IF n = NoNode THEN FALSE
  ELSE exists[n] /\ visible[n] /\ (n = root \/ visibleUpTo(ParentOf(n), root))

\* C15: findVisibleTextNodes(root) is exactly the text nodes under root that
\* are visible together with all their ancestors up to root (root included),
\* in host child order; a text node below a hidden node is never returned.
C15_VisibilityPruning ==
  \A root \in SceneNodes :
    exists[root]
      => findVisibleTextNodes(root)
           = SelectSeq(TextOrder, LAMBDA t : visibleUpTo(t, root))

\* a scan of A left out the visible text node of the hidden group
C15_Witness ==
  /\ ev.kind = "documentchange" /\ Posted("result")
  /\ lastActiveFrameId = "A" /\ RowIds(out[1].data) = {"t1"}
  /\ exists["G"] /\ ~visible["G"] /\ visible["t2"]

\* C16: handling a documentchange changes neither the snapshot nor the active
\* context nor the navigation guard; the snapshot changes only in a step that
\* enters a context (an unguarded selectionchange) and posts a result.
C16_RescanKeepsBaseline ==
  [][/\ (ev'.kind = "documentchange"
          => /\ originalDataMap' = originalDataMap
             /\ lastActiveFrameId' = lastActiveFrameId
             /\ isNavigating' = isNavigating)
     /\ (originalDataMap' # originalDataMap
          => /\ ev'.kind = "selectionchange" /\ ~ev'.guarded
             /\ lastActiveFrameId' # NoNode
             /\ Len(out') = 1 /\ out'[1].type = "result")]_vars

\* a re-scan ran with the guard set and reported a row whose fingerprint
\* differs from the baseline that the snapshot still holds
C16_Witness ==
  /\ ev.kind = "documentchange" /\ Posted("result") /\ isNavigating
  /\ \E i \in DOMAIN out[1].data :
       /\ out[1].data[i].nodeId \in DOMAIN originalDataMap
       /\ originalDataMap[out[1].data[i].nodeId]
            # FingerprintOf(SixFields(out[1].data[i].nodeId))

\* C17: in the result of a re-scan a row is modified exactly when the
\* snapshot has its nodeId and the fingerprint kept there differs from the
\* fingerprint of the row's six fields; a row without a baseline is unmodified.
C17_ModifiedIffFingerprintDiffers ==
  (ev.kind = "documentchange" /\ Posted("result"))
    => \A i \in DOMAIN out[1].data :
         LET r == out[1].data[i]
         IN  r.isModified
               <=> /\ r.nodeId \in DOMAIN originalDataMap
                   /\ originalDataMap[r.nodeId] # FingerprintOf(RowFields(r))

\* a re-scan posted a row that has no baseline next to one that has
C17_Witness ==
  /\ ev.kind = "documentchange" /\ Posted("result")
  /\ \E i, j \in DOMAIN out[1].data :
       /\ out[1].data[i].nodeId \notin DOMAIN originalDataMap
       /\ ~out[1].data[i].isModified
       /\ out[1].data[j].nodeId \in DOMAIN originalDataMap

\* C18: after a re-scan, the re-scan that a further documentchange would run
\* with the document and the context as they are posts the same messages (the
\* same rows, the same flags) and leaves the same snapshot.
C18_RescanIdempotent ==
  (ev.kind = "documentchange" /\ ev.was # NoNode /\ exists[ev.was])
    => LET again == scanFrame(lastActiveFrameId, FALSE, originalDataMap)
       IN  /\ lastActiveFrameId = ev.was
           /\ again.msgs = out
           /\ again.map = originalDataMap

\* a re-scan of G reported its row modified and nothing happened since
C18_Witness ==
  /\ ev.kind = "documentchange" /\ Posted("result")
  /\ lastActiveFrameId = "G" /\ out[1].data[1].isModified
  /\ ~docDirty /\ pending = <<>>

\* vocabulary of C19, stated on the scene
ResolvesToText(id) == id \in LiveNodes /\ NodeType(id) = "TEXT"
NoneResolves(ids) == Range(ids) \cap LiveNodes = {}

\* the step shows a warning and does nothing else
WarnsOnly ==
  /\ toast' = "warning"
  /\ out' = <<>>
  /\ selection' = selection /\ pending' = pending
  /\ isNavigating' = isNavigating
  /\ lastActiveFrameId' = lastActiveFrameId
  /\ originalDataMap' = originalDataMap

\* the step shows nothing and does nothing
DropsSilently ==
  /\ toast' = "none"
  /\ out' = <<>>
  /\ selection' = selection /\ pending' = pending
  /\ isNavigating' = isNavigating
  /\ lastActiveFrameId' = lastActiveFrameId
  /\ originalDataMap' = originalDataMap

\* the guard is set by a step exactly when the step assigns the selection
GuardIffAssigned ==
  /\ (pending' = Append(pending, "core")) => isNavigating'
  /\ (isNavigating' /\ ~isNavigating) => pending' = Append(pending, "core")

\* C19 (as claimed): every select-node message whose id does not resolve to a
\* text node and every select-nodes message none of whose ids resolves shows
\* a warning and changes nothing; a step sets the guard exactly when it
\* assigns the selection.
C19_MissOnlyWarns ==
  [][/\ GuardIffAssigned
     /\ ev'.kind = "message"
          => /\ \A id \in UiIds :
                  (~ResolvesToText(id) /\ SelectNode(id)) => WarnsOnly
             /\ \A ids \in UiIdLists :
                  (NoneResolves(ids) /\ SelectNodes(ids)) => WarnsOnly]_vars

\* C19 (amended): a select-node message with a non-empty id that does not
\* resolve to a text node and a select-nodes message with a non-empty list
\* none of whose ids resolves show a warning and change nothing; a message
\* with an empty id or an empty list is dropped without a warning and changes
\* nothing; a step sets the guard exactly when it assigns the selection.
C19_MissWarnsOrDrops ==
  [][/\ GuardIffAssigned
     /\ ev'.kind = "message"
          => /\ \A id \in UiIds :
                  (~ResolvesToText(id) /\ SelectNode(id))
                    => IF id = "" THEN DropsSilently ELSE WarnsOnly
             /\ \A ids \in UiIdLists :
                  (NoneResolves(ids) /\ SelectNodes(ids))
                    => IF ids = <<>> THEN DropsSilently ELSE WarnsOnly]_vars

\* a row of the deleted group was clicked in a context without guard: only
\* the warning shows
C19_Witness ==
  /\ ev.kind = "message" /\ toast = "warning"
  /\ ~exists["G"] /\ ~isNavigating /\ pending = <<>>
  /\ lastActiveFrameId = "A" /\ originalDataMap # EmptyMap

\* C20: a re-scan reports a row unmodified whenever the row was among the rows
\* at context entry and its six fields are again what they were then, also
\* after an earlier re-scan of the same context reported it modified.
C20_FlagNotSticky ==
  (ev.kind = "documentchange" /\ Posted("result"))
    => \A i \in DOMAIN out[1].data :
         LET id == out[1].data[i].nodeId
         IN  (id \in DOMAIN entry /\ entry[id] = SixFields(id))
               => ~out[1].data[i].isModified

\* a row that an earlier re-scan of this context reported modified has its
\* fields of entry again and is reported unmodified
C20_Witness ==
  /\ ev.kind = "documentchange" /\ Posted("result")
  /\ \E i \in DOMAIN out[1].data :
       /\ out[1].data[i].nodeId \in flagged
       /\ entry[out[1].data[i].nodeId] = SixFields(out[1].data[i].nodeId)
       /\ ~out[1].data[i].isModified

\* C21 (as claimed): every row of a result is a text node that is visible
\* together with all its ancestors up to and including the scanned container;
\* a hidden container yields no rows.
C21_RowsVisibleUpToContainer ==
  (Posted("result") /\ lastActiveFrameId # NoNode)
    => \A i \in DOMAIN out[1].data :
         visibleUpTo(out[1].data[i].nodeId, lastActiveFrameId)

\* C22: the ids of every sync-selection are not empty and are exactly the
\* selected nodes that are proper descendants of the active container, in
\* selection order; a selection without a container that mixes descendants
\* of the active container with other nodes is answered by a sync-selection
\* and the context is kept.
C22_SyncIdsAreSelectedDescendants ==
  /\ (Handled /\ Posted("sync-selection"))
       => /\ ev.was # NoNode /\ lastActiveFrameId = ev.was
          /\ out[1].ids # <<>>
          /\ out[1].ids
               = SelectSeq(selection, LAMBDA n : n \in DescendantsOf(ev.was))
  /\ (/\ Handled /\ ev.was # NoNode
      /\ FirstContainer(selection) = NoNode
      /\ Range(selection) \cap DescendantsOf(ev.was) # {})
       => /\ Posted("sync-selection")
          /\ lastActiveFrameId = ev.was

\* a text node outside the active group was selected together with the one
\* inside: only the inner one is synced and the group stays active
C22_Witness ==
  /\ Handled /\ Posted("sync-selection")
  /\ ev.was = "G" /\ lastActiveFrameId = "G"
  /\ selection = <<"t1", "t2">> /\ out[1].ids = <<"t2">>

====
